---- MODULE Spec2Model ----
(***************************************************************************)
(* ghstar: star a GitHub repository from the command line.                 *)
(* A model of one run of main() in ghstar.py: credential lookup, the       *)
(* optional search and interactive selection, the star request, and the    *)
(* mapping of the outcome to what is printed and to the exit status.       *)
(*                                                                         *)
(* Python values: an optional value is a sequence of length 0 (None) or 1; *)
(* a piece of text that the program concatenates is a sequence of string   *)
(* tokens (so "Starred " + name is \o); the line typed at the prompt is a  *)
(* sequence of one-character strings.                                      *)
(***************************************************************************)
EXTENDS Integers, Sequences, FiniteSets, TLC

\* ------------------------------------------------------------- bounds
\* Longest "items" list of a search response.
MaxItems == 2
\* Longest line typed at the selection prompt, in characters.
MaxInputLen == 2

\* ------------------------------------------------------ Python values
PyNone == <<>>
Some(x) == <<x>>

\* Python truthiness of an optional string: None and "" are falsy.
Truthy(v) == v # PyNone /\ v # Some("")

DigitChars == <<"0", "1", "2", "3", "4", "5", "6", "7", "8", "9">>

\* str(n) for the small non-negative integers the program formats.
PyStr(n) == DigitChars[n + 1]

\* "{}".format(v) of an optional string / an optional small integer.
FormatStr(v) == IF v = PyNone THEN "None" ELSE v[1]
FormatInt(v) == IF v = PyNone THEN "None" ELSE PyStr(v[1])

\* s occurs in text as a contiguous run of tokens.
Contains(text, s) ==
    \E i \in 0..(Len(text) - Len(s)) : SubSeq(text, i + 1, i + Len(s)) = s

IsPrefix(s, t) == Len(s) <= Len(t) /\ SubSeq(t, 1, Len(s)) = s

\* A call's outcome: a returned value or a raised exception.
Return(v) == [ok |-> TRUE, val |-> v]
Raise(type, msg) == [ok |-> FALSE, exc |-> [type |-> type, msg |-> msg]]

\* ---------------------------------------------------------- the inputs
NameAB == <<"a", "/", "b">>
NameCD == <<"c", "/", "d">>
Query == <<"ghstar">>

\* The positional argument: a full name (direct mode) or a search query.
RepoArgs == {NameAB, NameCD, Query}

\* os.environ restricted to the two variables read: unset, empty or set.
EnvValues(v) == {PyNone, Some(""), Some(v)}

\* Objects of a search response's "items" array.
Items ==
    { [full_name |-> NameAB, description |-> Some("d"), stargazers_count |-> 5],
      [full_name |-> NameCD, description |-> PyNone, stargazers_count |-> 0] }

ItemLists == UNION { [1..n -> Items] : n \in 0..MaxItems }

\* JSON bodies of a search response: the documented shape, or an error
\* object without "items" (what the API sends with an error status).
Bodies ==
    { [items |-> l] : l \in ItemLists } \cup { [message |-> "Bad credentials"] }

\* What requests.get / requests.put can do: raise
\* requests.exceptions.ConnectionError or return a response.
TransportFailure == [connected |-> FALSE]
SearchOutcomes ==
    {TransportFailure} \cup { [connected |-> TRUE, body |-> b] : b \in Bodies }

StarStatuses == {204, 401, 403, 404, 500}
StarOutcomes ==
    {TransportFailure} \cup { [connected |-> TRUE, status_code |-> s] : s \in StarStatuses }

\* Characters of a typed line: the digits up to MaxItems + 1, a sign and a
\* letter.
InputChars == { DigitChars[d + 1] : d \in 0..(MaxItems + 1) } \cup {"-", "x"}
InputLines == UNION { [1..n -> InputChars] : n \in 0..MaxInputLen }

\* ------------------------------------------------- the pure functions
\* Repo = namedtuple("Repo", ["full_name", "description", "stars"]); the
\* description and the star count are optional values.
Repo(full_name, description, stars) ==
    [full_name |-> full_name, description |-> description, stars |-> stars]

AuthErrorMsg ==
    << "Invalid credentials supplied.\nPlease set the environment variables ",
       "GH_UNAME", " and ", "GH_TOKEN",
       " to your GitHub username and access token." >>

\* Mutant: the message does not name the repository.
InvalidRepoErrorMsg_generic(repo) == <<"Not a valid repo.">>

InvalidRepoErrorMsg(repo) == repo.full_name \o <<" is not a valid repo.">>

ConnectionErrorMsg == <<"Please check your internet connection.">>

AuthError == Raise("AuthError", AuthErrorMsg)
InvalidRepoError(repo) == Raise("InvalidRepoError", InvalidRepoErrorMsg(repo))
ConnectionError == Raise("ConnectionError", ConnectionErrorMsg)

\* The exception types main's except clause names.
Caught == {"AuthError", "InvalidRepoError", "ConnectionError"}

\* Mutant: only the username is tested.
get_credentials_user_only(environ) ==
    LET gh_user == environ.GH_UNAME
        gh_token == environ.GH_TOKEN
    IN  IF ~Truthy(gh_user)
        THEN AuthError
        ELSE Return(<<gh_user[1], FormatStr(gh_token)>>)

get_credentials(environ) ==
    LET gh_user == environ.GH_UNAME
        gh_token == environ.GH_TOKEN
    IN  IF ~(Truthy(gh_user) /\ Truthy(gh_token))
        THEN AuthError
        ELSE Return(<<gh_user[1], gh_token[1]>>)

SearchUrl == <<"https://api.github.com/search/repositories">>

\* The request search_repo sends.
SearchRequest(query, gh_user, gh_token) ==
    [method |-> "GET", url |-> SearchUrl, auth |-> <<gh_user, gh_token>>,
     q |-> Some(query)]

\* Mutant: the transport failure is not caught and re-raised.
search_repo_uncaught(r) ==
    IF ~r.connected
    THEN Raise("requests.exceptions.ConnectionError", <<"Max retries exceeded">>)
    ELSE IF "items" \notin DOMAIN r.body THEN Raise("KeyError", <<"'items'">>)
    ELSE LET items == r.body.items
         IN  Return([i \in 1..Len(items) |->
                        Repo(items[i].full_name, items[i].description,
                             Some(items[i].stargazers_count))])

\* search_repo after requests.get: r is what the call did.
search_repo(r) ==
    IF ~r.connected THEN ConnectionError
    ELSE IF "items" \notin DOMAIN r.body THEN Raise("KeyError", <<"'items'">>)
    ELSE LET items == r.body.items
         IN  Return([i \in 1..Len(items) |->
                        Repo(items[i].full_name, items[i].description,
                             Some(items[i].stargazers_count))])

\* What select_repo prints before it reads: a blank line, the numbered
\* list, a blank line and the prompt.
select_repo_output(repos) ==
    << <<>> >>
    \o [i \in 1..Len(repos) |->
          <<"[", PyStr(i), "] ">> \o repos[i].full_name
          \o <<" - ", FormatStr(repos[i].description), " (",
               FormatInt(repos[i].stars), " stars)">>]
    \o << <<>>, <<"Select the repository [1-", PyStr(Len(repos)), "]: ">> >>

IsDigit(c) == \E d \in 1..10 : DigitChars[d] = c
DigitVal(c) == (CHOOSE d \in 1..10 : DigitChars[d] = c) - 1

\* int(s) accepts an optional sign followed by one or more digits.
IsIntLiteral(s) ==
    LET body == IF Len(s) > 0 /\ s[1] = "-" THEN Tail(s) ELSE s
    IN  Len(body) > 0 /\ \A i \in 1..Len(body) : IsDigit(body[i])

RECURSIVE DigitsValue(_)
DigitsValue(ds) ==
    IF ds = <<>> THEN 0
    ELSE 10 * DigitsValue(SubSeq(ds, 1, Len(ds) - 1)) + DigitVal(ds[Len(ds)])

\* int(s): the value, or ValueError.
py_int(s) ==
    IF ~IsIntLiteral(s) THEN Raise("ValueError", <<"invalid literal for int()">>)
    ELSE IF s[1] = "-" THEN Return(0 - DigitsValue(Tail(s)))
    ELSE Return(DigitsValue(s))

\* seq[index] of a Python list: a negative index counts from the end.
py_getitem(seq, index) ==
    LET i == IF index < 0 THEN index + Len(seq) ELSE index
    IN  IF i < 0 \/ i >= Len(seq)
        THEN Raise("IndexError", <<"list index out of range">>)
        ELSE Return(seq[i + 1])

\* Mutant: the typed number is used as a 0-based index.
select_repo_no_offset(repos, number) ==
    LET n == py_int(number)
    IN  IF ~n.ok THEN n ELSE py_getitem(repos, n.val)

\* select_repo after the list is printed: number is the line read.
select_repo(repos, number) ==
    LET n == py_int(number)
    IN  IF ~n.ok THEN n ELSE py_getitem(repos, n.val - 1)

StarUrl(repo) == <<"https://api.github.com/user/starred/">> \o repo.full_name

\* The request star_repo sends.
StarRequest(repo, gh_user, gh_token) ==
    [method |-> "PUT", url |-> StarUrl(repo), auth |-> <<gh_user, gh_token>>,
     q |-> PyNone]

\* Mutant: status 401 is not tested.
star_repo_no_401(repo, r) ==
    IF ~r.connected THEN ConnectionError
    ELSE IF r.status_code = 404 THEN InvalidRepoError(repo)
    ELSE Return(PyNone)

\* Mutant: every status but 200 is taken for an invalid repository.
star_repo_expect_200(repo, r) ==
    IF ~r.connected THEN ConnectionError
    ELSE IF r.status_code = 401 THEN AuthError
    ELSE IF r.status_code # 200 THEN InvalidRepoError(repo)
    ELSE Return(PyNone)

\* Mutant: every error status raises (as r.raise_for_status() would).
star_repo_raise_for_status(repo, r) ==
    IF ~r.connected THEN ConnectionError
    ELSE IF r.status_code = 401 THEN AuthError
    ELSE IF r.status_code = 404 THEN InvalidRepoError(repo)
    ELSE IF r.status_code >= 400 THEN Raise("HTTPError", <<"HTTP error">>)
    ELSE Return(PyNone)

\* star_repo after requests.put: r is what the call did.
star_repo(repo, r) ==
    IF ~r.connected THEN ConnectionError
    ELSE IF r.status_code = 401 THEN AuthError
    ELSE IF r.status_code = 404 THEN InvalidRepoError(repo)
    ELSE Return(PyNone)

\* The service stars the repository exactly when it answers 204 (the
\* status the star endpoint documents for success); a request that did not
\* reach it, or that it answered otherwise, starred nothing.
RemoteStar(stars, repo, r) ==
    IF r.connected /\ r.status_code = 204
    THEN stars \cup {repo.full_name}
    ELSE stars

Confirmation(repo) == <<"Starred ">> \o repo.full_name

\* ----------------------------------------------------------- the state
VARIABLES
    pc,               \* where main is: "main", "have_creds", "searched",
                      \* "have_repo", "starred", "exited"
    environ,          \* GH_UNAME and GH_TOKEN of the process environment
    args,             \* the parsed command line: repo, interactive
    creds,            \* (username, token), once resolved
    search_response,  \* what requests.get did, once called
    search_results,   \* the list search_repo returned
    number,           \* the line input() returned
    repo,             \* the Repo to star
    star_response,    \* what requests.put did, once called
    calls,            \* the requests issued, in order
    starred,          \* the full names this run's requests starred
    stdout,           \* the lines printed
    stderr,           \* the messages written to standard error
    error,            \* the exception that ended the run
    exit_status,      \* the process's exit status
    trace             \* the run's external events, in order

vars == << pc, environ, args, creds, search_response, search_results, number,
           repo, star_response, calls, starred, stdout, stderr, error,
           exit_status, trace >>

Init ==
    /\ pc = "main"
    /\ environ \in [GH_UNAME : EnvValues("user"), GH_TOKEN : EnvValues("token")]
    /\ args \in [repo : RepoArgs, interactive : BOOLEAN]
    /\ creds = PyNone
    /\ search_response = PyNone
    /\ search_results = PyNone
    /\ number = PyNone
    /\ repo = PyNone
    /\ star_response = PyNone
    /\ calls = <<>>
    /\ starred = {}
    /\ stdout = <<>>
    /\ stderr = <<>>
    /\ error = PyNone
    /\ exit_status = PyNone
    /\ trace = <<>>

\* An exception leaves the try block: one that the except clause names is
\* passed to exit(), which writes its message and exits with status 1; any
\* other leaves main and the interpreter writes a traceback and exits with
\* status 1.
Fail(exc) ==
    /\ pc' = "exited"
    /\ error' = Some(exc)
    /\ stderr' = Append(stderr, IF exc.type \in Caught
                                THEN exc.msg
                                ELSE <<"Traceback (most recent call last):", exc.type>>)
    /\ exit_status' = Some(1)

\* username, token = get_credentials()
GetCredentials ==
    /\ pc = "main"
    /\ trace' = Append(trace, "getenv")
    /\ LET c == get_credentials(environ)
       IN  IF c.ok
           THEN /\ creds' = Some(c.val)
                /\ pc' = "have_creds"
                /\ UNCHANGED << error, stderr, exit_status >>
           ELSE /\ Fail(c.exc)
                /\ UNCHANGED creds
    /\ UNCHANGED << environ, args, search_response, search_results, number,
                    repo, star_response, calls, starred, stdout >>

\* search_results = search_repo(query=args.repo, ...)
SearchRepo ==
    /\ pc = "have_creds"
    /\ args.interactive
    /\ \E r \in SearchOutcomes :
          /\ calls' = Append(calls, SearchRequest(args.repo, creds[1][1], creds[1][2]))
          /\ trace' = Append(trace, "GET")
          /\ search_response' = Some(r)
          /\ LET res == search_repo(r)
             IN  IF res.ok
                 THEN /\ search_results' = Some(res.val)
                      /\ pc' = "searched"
                      /\ UNCHANGED << error, stderr, exit_status >>
                 ELSE /\ Fail(res.exc)
                      /\ UNCHANGED search_results
    /\ UNCHANGED << environ, args, creds, number, repo, star_response, starred,
                    stdout >>

\* repo = select_repo(search_results)
SelectRepo ==
    /\ pc = "searched"
    /\ stdout' = stdout \o select_repo_output(search_results[1])
    /\ \E line \in InputLines :
          /\ number' = Some(line)
          /\ trace' = Append(trace, "input")
          /\ LET res == select_repo(search_results[1], line)
             IN  IF res.ok
                 THEN /\ repo' = Some(res.val)
                      /\ pc' = "have_repo"
                      /\ UNCHANGED << error, stderr, exit_status >>
                 ELSE /\ Fail(res.exc)
                      /\ UNCHANGED repo
    /\ UNCHANGED << environ, args, creds, search_response, search_results,
                    star_response, calls, starred >>

\* repo = Repo(full_name=args.repo, description=None, stars=None)
DirectRepo ==
    /\ pc = "have_creds"
    /\ ~args.interactive
    /\ repo' = Some(Repo(args.repo, PyNone, PyNone))
    /\ pc' = "have_repo"
    /\ UNCHANGED << environ, args, creds, search_response, search_results,
                    number, star_response, calls, starred, stdout, stderr,
                    error, exit_status, trace >>

\* Mutant: a failed star request is sent again.
StarRepo_retry ==
    /\ pc = "have_repo"
    /\ \E r \in StarOutcomes :
          /\ calls' = Append(calls, StarRequest(repo[1], creds[1][1], creds[1][2]))
          /\ trace' = Append(trace, "PUT")
          /\ star_response' = Some(r)
          /\ starred' = RemoteStar(starred, repo[1], r)
          /\ LET res == star_repo(repo[1], r)
             IN  IF res.ok
                 THEN /\ pc' = "starred"
                      /\ UNCHANGED << error, stderr, exit_status >>
                 ELSE IF ~r.connected
                 THEN UNCHANGED << pc, error, stderr, exit_status >>
                 ELSE Fail(res.exc)
    /\ UNCHANGED << environ, args, creds, search_response, search_results,
                    number, repo, stdout >>

\* star_repo(repo=repo, gh_user=username, gh_token=token)
StarRepo ==
    /\ pc = "have_repo"
    /\ \E r \in StarOutcomes :
          /\ calls' = Append(calls, StarRequest(repo[1], creds[1][1], creds[1][2]))
          /\ trace' = Append(trace, "PUT")
          /\ star_response' = Some(r)
          /\ starred' = RemoteStar(starred, repo[1], r)
          /\ LET res == star_repo(repo[1], r)
             IN  IF res.ok
                 THEN /\ pc' = "starred"
                      /\ UNCHANGED << error, stderr, exit_status >>
                 ELSE Fail(res.exc)
    /\ UNCHANGED << environ, args, creds, search_response, search_results,
                    number, repo, stdout >>

\* print("Starred " + repo.full_name); exit(0)
Confirm ==
    /\ pc = "starred"
    /\ stdout' = Append(stdout, Confirmation(repo[1]))
    /\ trace' = Append(trace, "print")
    /\ exit_status' = Some(0)
    /\ pc' = "exited"
    /\ UNCHANGED << environ, args, creds, search_response, search_results,
                    number, repo, star_response, calls, starred, stderr, error >>

Next ==
    \/ GetCredentials
    \/ SearchRepo
    \/ SelectRepo
    \/ DirectRepo
    \/ StarRepo
    \/ Confirm

Spec == Init /\ [][Next]_vars

\* ------------------------------------------------ reading the state
Exited == pc = "exited"

Methods(cs) == [i \in 1..Len(cs) |-> cs[i].method]

NoCall(method) == \A i \in 1..Len(calls) : calls[i].method # method

\* The full name the star request addressed: its URL without the endpoint.
StarTarget == SubSeq(calls[Len(calls)].url, 2, Len(calls[Len(calls)].url))

StarSent == calls # <<>> /\ calls[Len(calls)].method = "PUT"

ConfirmationPrinted ==
    \E i \in 1..Len(stdout) :
        Len(stdout[i]) > 0 /\ stdout[i][1] = "Starred "

StarStatus(code) == star_response = Some([connected |-> TRUE, status_code |-> code])

\* ------------------------------------------------------------ C1
CredentialsMissing ==
    \/ environ.GH_UNAME \in {PyNone, Some("")}
    \/ environ.GH_TOKEN \in {PyNone, Some("")}

\* C1: whenever GH_UNAME or GH_TOKEN is unset or empty, no request is ever
\* issued, in either mode, and once get_credentials has run the run has
\* ended with AuthError (its fixed message names both variables), status 1.
C1_NoCallWithoutCredentials ==
    CredentialsMissing =>
        /\ calls = <<>>
        /\ search_response = PyNone /\ star_response = PyNone
        /\ pc \in {"main", "exited"}
        /\ Exited =>
              /\ error # PyNone /\ error[1].type = "AuthError"
              /\ Contains(error[1].msg, <<"GH_UNAME">>)
              /\ Contains(error[1].msg, <<"GH_TOKEN">>)
              /\ stderr = <<error[1].msg>>
              /\ exit_status = Some(1)
              /\ stdout = <<>>

C1_Witness ==
    /\ Exited
    /\ args.interactive
    /\ environ.GH_UNAME = Some("user")
    /\ environ.GH_TOKEN = Some("")

\* ------------------------------------------------------------ C2
\* C2: no partial success: a run that has ended either exited 0 with the
\* confirmation printed and the repository starred by its star request, or
\* exited non-zero with nothing starred.
C2_NoPartialSuccess ==
    Exited =>
        \/ /\ exit_status = Some(0)
           /\ ConfirmationPrinted
           /\ repo # PyNone /\ repo[1].full_name \in starred
        \/ /\ exit_status # Some(0)
           /\ ~ConfirmationPrinted
           /\ starred = {}

\* ------------------------------------------------------------ C3
\* C3: a typed integer outside [1, N] is rejected: select_repo returns no
\* repository, the run ends with an error and no star request is issued.
C3_OutOfRangeRejected ==
    ( /\ number # PyNone
      /\ py_int(number[1]).ok
      /\ py_int(number[1]).val \notin 1..Len(search_results[1]) )
    =>
        /\ repo = PyNone
        /\ error # PyNone
        /\ NoCall("PUT")

\* ------------------------------------------------------------ C4
\* C4: once the star request was answered 401, the run has ended with
\* AuthError and status 1, the star request is the last thing the run did
\* (no call after it) and no confirmation was printed.
C4_Star401 ==
    StarStatus(401) =>
        /\ Exited
        /\ error # PyNone /\ error[1].type = "AuthError"
        /\ stderr = <<AuthErrorMsg>>
        /\ exit_status = Some(1)
        /\ StarSent
        /\ trace[Len(trace)] = "PUT"
        /\ ~ConfirmationPrinted

C4_Witness == StarStatus(401) /\ Exited /\ args.interactive

\* ------------------------------------------------------------ C5
\* C5: once the star request was answered 404, the run has ended with
\* InvalidRepoError whose message contains the full name the request
\* addressed (the argument in direct mode, the selected result's name in
\* interactive mode), with status 1 and no confirmation.
C5_Star404 ==
    StarStatus(404) =>
        /\ Exited
        /\ StarSent
        /\ error # PyNone /\ error[1].type = "InvalidRepoError"
        /\ Contains(error[1].msg, StarTarget)
        /\ ~args.interactive => StarTarget = args.repo
        /\ args.interactive =>
              \E i \in 1..Len(search_results[1]) :
                  search_results[1][i].full_name = StarTarget
        /\ stderr = <<error[1].msg>>
        /\ exit_status = Some(1)
        /\ ~ConfirmationPrinted

C5_Witness ==
    /\ StarStatus(404)
    /\ Exited
    /\ args.interactive
    /\ StarTarget = NameCD
    /\ args.repo # NameCD

\* ------------------------------------------------------------ C6
\* C6: once the star request was answered 204, no error is raised, and the
\* run ends with status 0 after printing "Starred " followed by the full
\* name the star request addressed.
C6_Star204 ==
    StarStatus(204) =>
        /\ pc \in {"starred", "exited"}
        /\ error = PyNone
        /\ Exited =>
              /\ exit_status = Some(0)
              /\ stdout # <<>>
              /\ stdout[Len(stdout)] = <<"Starred ">> \o StarTarget
              /\ stderr = <<>>

C6_Witness == StarStatus(204) /\ Exited /\ args.interactive /\ StarTarget = NameAB

\* ------------------------------------------------------------ C7
SearchTransportFailed == search_response = Some(TransportFailure)
StarTransportFailed == star_response = Some(TransportFailure)

\* C7: a transport failure of the search or of the star request ends the
\* run with ConnectionError carrying the fixed message, which main catches:
\* the message alone is written, the status is 1, nothing is confirmed; and
\* after a failed search no star request is issued.
C7_TransportFailure ==
    (SearchTransportFailed \/ StarTransportFailed) =>
        /\ Exited
        /\ error = Some([type |-> "ConnectionError",
                         msg |-> <<"Please check your internet connection.">>])
        /\ error[1].type \in Caught
        /\ stderr = << <<"Please check your internet connection.">> >>
        /\ exit_status = Some(1)
        /\ ~ConfirmationPrinted
        /\ SearchTransportFailed => NoCall("PUT")

C7_Witness == SearchTransportFailed /\ Exited

C7_WitnessStar == StarTransportFailed /\ Exited

\* ------------------------------------------------------------ C8
\* C8: when the search response holds N items and the line typed is an
\* integer k with 1 <= k <= N, search_repo returned the N items as Repo
\* values in response order, select_repo returned the k-th, and the star
\* request addresses the k-th item's full name.
C8_SearchSelectStar ==
    ( /\ number # PyNone
      /\ py_int(number[1]).ok
      /\ py_int(number[1]).val \in 1..Len(search_response[1].body.items) )
    =>
        LET items == search_response[1].body.items
            k == py_int(number[1]).val
        IN  /\ Len(search_results[1]) = Len(items)
            /\ \A i \in 1..Len(items) :
                  /\ search_results[1][i].full_name = items[i].full_name
                  /\ search_results[1][i].description = items[i].description
                  /\ search_results[1][i].stars = Some(items[i].stargazers_count)
            /\ repo = Some([full_name |-> items[k].full_name,
                            description |-> items[k].description,
                            stars |-> Some(items[k].stargazers_count)])
            /\ pc \in {"have_repo", "starred", "exited"}
            /\ star_response # PyNone =>
                  /\ StarSent
                  /\ StarTarget = items[k].full_name

C8_Witness ==
    /\ number = Some(<<"2">>)
    /\ Len(search_results[1]) = 2
    /\ search_results[1][1].full_name # search_results[1][2].full_name
    /\ star_response # PyNone
    /\ StarTarget = search_response[1].body.items[2].full_name

\* ------------------------------------------------------------ C9
OtherStatus ==
    /\ star_response # PyNone
    /\ star_response[1].connected
    /\ star_response[1].status_code \notin {204, 401, 404}

\* C9: a star response with a status other than 204, 401 and 404 raises no
\* error, and the run ends as a success: the confirmation naming the
\* repository is printed and the status is 0.
C9_OtherStatusIsSuccess ==
    OtherStatus =>
        /\ pc \in {"starred", "exited"}
        /\ error = PyNone
        /\ Exited =>
              /\ exit_status = Some(0)
              /\ stdout # <<>>
              /\ stdout[Len(stdout)] = <<"Starred ">> \o StarTarget
              /\ stderr = <<>>

C9_Witness == StarStatus(500) /\ Exited /\ exit_status = Some(0)

\* ------------------------------------------------------------ C10
\* The events of a complete run, in order.
FullRun ==
    IF args.interactive
    THEN <<"getenv", "GET", "input", "PUT", "print">>
    ELSE <<"getenv", "PUT", "print">>

\* The network calls among a run's events.
RECURSIVE CallsOf(_)
CallsOf(t) ==
    IF t = <<>> THEN <<>>
    ELSE IF t[1] \in {"GET", "PUT"} THEN <<t[1]>> \o CallsOf(Tail(t))
    ELSE CallsOf(Tail(t))

\* C10: the events of a run are an initial part of: credentials, then (in
\* interactive mode only) one search request and one read, then one star
\* request, then the confirmation. So at most two calls are issued, none
\* twice; the star request follows the search response and the selection;
\* and direct mode issues no search and reads no input.
C10_CallOrder ==
    /\ IsPrefix(trace, FullRun)
    /\ Methods(calls) = CallsOf(trace)
    /\ Len(calls) <= 2
    /\ calls # <<>> => creds # PyNone
    /\ (args.interactive /\ ~NoCall("PUT")) =>
          /\ calls[1].method = "GET"
          /\ search_response # PyNone
          /\ number # PyNone
          /\ repo # PyNone
    /\ ~args.interactive =>
          /\ NoCall("GET")
          /\ number = PyNone
          /\ search_response = PyNone

C10_Witness == args.interactive /\ Exited /\ Methods(calls) = <<"GET", "PUT">>

====
